---------------------------- MODULE Spec2Model ----------------------------
(***************************************************************************)
(* A model of app.py: GeminiInvoiceAnalyzer (encode_image, analyze_invoice, *)
(* _extract_json and its three strategies, the pydantic validation of      *)
(* InvoiceDetails, the default record) and the part of main that hands an  *)
(* uploaded file to it.                                                    *)
(*                                                                         *)
(* A text is a sequence of tokens.  Each token stands for a run of         *)
(* characters of the model's response:                                     *)
(*   "{" "}" "[" "]" ","   the JSON punctuation characters                 *)
(*   "1"                   the JSON number 1                               *)
(*   "x"                   a run of prose holding no brace and no backtick *)
(*   "F"                   the characters ```json\n                        *)
(*   "E"                   the characters ```                              *)
(*   a member token        a comma separated list of "key": scalar pairs   *)
(*   a head token          such a list followed by a last "key": whose     *)
(*                         value is the JSON value that follows the token  *)
(* The characters '{' and '}' occur in the tokens "{" and "}" only, and    *)
(* three backticks occur in "F" (at its start) and "E" only.               *)
(***************************************************************************)
EXTENDS Integers, Sequences, FiniteSets, TLC

(***************************************************************************)
(* Bounds of the model.                                                    *)
(***************************************************************************)
MaxSegs == 4        \* fragments concatenated into a text given to _extract_json
MaxItems == 2       \* line items in a response of the remote model
MaxFileLen == 4     \* bytes of an uploaded file

(***************************************************************************)
(* JSON values, as json.loads builds them.  Numbers are given by their     *)
(* numeric value (150.0 is 150), so an int and the float it converts to    *)
(* are the same number, as in Python.                                      *)
(***************************************************************************)
Num(n) == [kind |-> "num", n |-> n]
Str(s) == [kind |-> "str", s |-> s]
Bool(b) == [kind |-> "bool", b |-> b]
Arr(e) == [kind |-> "arr", elems |-> e]
Obj(m) == [kind |-> "obj", map |-> m]
NoValue == [kind |-> "none"]
EmptyMap == << >>
EmptyObj == Obj(EmptyMap)

(***************************************************************************)
(* The member tokens and the head tokens, and the text each stands for.    *)
(***************************************************************************)
ScalarFields ==
  [invoice_number |-> Str("INV-100"), vendor_name |-> Str("Acme"),
   invoice_date |-> Str("2024-03-01"), total_amount |-> Num(150),
   tax_amount |-> Num(10)]

Without(m, k) == [f \in DOMAIN m \ {k} |-> m[f]]

MemToks == {"Ma", "Mb", "Mnoitems", "I1", "I2", "Imiss", "Istr", "Idflt"}
HeadToks == {"Hk", "Hfull", "Hmiss", "Hstr", "Hnumstr", "Hbool", "Hdflt"}

MemMap(tok) ==
  CASE tok = "Ma" -> [a |-> Num(1)]
    [] tok = "Mb" -> [b |-> Num(1)]
    [] tok = "Mnoitems" -> ScalarFields
    [] tok = "I1" -> [item_name |-> Str("Widget"), quantity |-> Num(2),
                      unit_price |-> Num(70), total_price |-> Num(140)]
    [] tok = "I2" -> [item_name |-> Str("Bolt"), quantity |-> Num(1),
                      unit_price |-> Num(10), total_price |-> Num(10)]
    [] tok = "Imiss" -> [item_name |-> Str("Nut"), quantity |-> Num(1),
                         total_price |-> Num(10)]
    [] tok = "Istr" -> [item_name |-> Str("Nut"), quantity |-> Str("abc"),
                        unit_price |-> Num(10), total_price |-> Num(10)]
    [] tok = "Idflt" -> [item_name |-> Str("Sample Item"), quantity |-> Num(0),
                         unit_price |-> Num(0), total_price |-> Num(0)]

HeadMap(tok) ==
  CASE tok = "Hk" -> EmptyMap
    [] tok = "Hfull" -> ScalarFields
    [] tok = "Hmiss" -> Without(ScalarFields, "vendor_name")
    [] tok = "Hstr" -> [ScalarFields EXCEPT !.total_amount = Str("abc")]
    [] tok = "Hnumstr" -> [ScalarFields EXCEPT !.total_amount = Str("150.0")]
    [] tok = "Hbool" -> [ScalarFields EXCEPT !.total_amount = Bool(TRUE)]
    [] tok = "Hdflt" -> [invoice_number |-> Str("N/A"),
                         vendor_name |-> Str("Unknown Vendor"),
                         invoice_date |-> Str("2023-01-01"),
                         total_amount |-> Num(0), tax_amount |-> Num(0)]

HeadKey(tok) == IF tok = "Hk" THEN "k" ELSE "items"

(***************************************************************************)
(* json.loads.  ParseValue reads one JSON value of the token sequence t    *)
(* from position i (1-based) and answers the value and the position after  *)
(* it, or ok = FALSE where the decoder raises JSONDecodeError.             *)
(***************************************************************************)
ParseFail == [ok |-> FALSE, val |-> NoValue, next |-> 0]
ParseOk(v, n) == [ok |-> TRUE, val |-> v, next |-> n]
Tok(t, i) == IF i >= 1 /\ i <= Len(t) THEN t[i] ELSE "<eof>"

RECURSIVE ParseValue(_, _)
RECURSIVE ParseElems(_, _, _)

ParseElems(t, i, acc) ==
  LET r == ParseValue(t, i) IN
  IF ~r.ok THEN ParseFail
  ELSE IF Tok(t, r.next) = "]" THEN ParseOk(Arr(Append(acc, r.val)), r.next + 1)
  ELSE IF Tok(t, r.next) = "," THEN ParseElems(t, r.next + 1, Append(acc, r.val))
  ELSE ParseFail

ParseValue(t, i) ==
  CASE Tok(t, i) = "1" -> ParseOk(Num(1), i + 1)
    [] Tok(t, i) = "[" ->
         IF Tok(t, i + 1) = "]" THEN ParseOk(Arr(<< >>), i + 2)
         ELSE ParseElems(t, i + 1, << >>)
    [] Tok(t, i) = "{" ->
         IF Tok(t, i + 1) = "}" THEN ParseOk(EmptyObj, i + 2)
         ELSE IF Tok(t, i + 1) \in MemToks THEN
           IF Tok(t, i + 2) = "}"
           THEN ParseOk(Obj(MemMap(t[i + 1])), i + 3) ELSE ParseFail
         ELSE IF Tok(t, i + 1) \in HeadToks THEN
           LET r == ParseValue(t, i + 2) IN
           IF r.ok /\ Tok(t, r.next) = "}"
           THEN ParseOk(Obj(HeadMap(t[i + 1]) @@ (HeadKey(t[i + 1]) :> r.val)),
                        r.next + 1)
           ELSE ParseFail
         ELSE ParseFail
    [] OTHER -> ParseFail

\* json.loads(s): the whole of s is one JSON value, or the call raises.
Raised == [raised |-> TRUE, val |-> NoValue]
Returned(v) == [raised |-> FALSE, val |-> v]

json_loads(s) ==
  LET r == ParseValue(s, 1) IN
  IF r.ok /\ r.next = Len(s) + 1 THEN Returned(r.val) ELSE Raised

(***************************************************************************)
(* str.find, str.rfind and slicing, with Python's 0-based indices.         *)
(***************************************************************************)
Positions(text, toks) == {i \in 0..(Len(text) - 1) : text[i + 1] \in toks}
Min(S) == CHOOSE a \in S : \A b \in S : a <= b
Max(S) == CHOOSE a \in S : \A b \in S : a >= b
find(text, toks) == IF Positions(text, toks) = {} THEN -1 ELSE Min(Positions(text, toks))
rfind(text, toks) == IF Positions(text, toks) = {} THEN -1 ELSE Max(Positions(text, toks))
Slice(text, start, end) == SubSeq(text, start + 1, end)

(***************************************************************************)
(* The three strategies of _extract_json.                                  *)
(***************************************************************************)
\* A variant of the bracket strategy that ends the span at the first '}'.
BetweenFirstBrackets(text) ==
  LET start == find(text, {"{"})
      end == find(text, {"}"}) + 1
  IN IF start /= -1 /\ end /= -1
     THEN json_loads(Slice(text, start, end))
     ELSE Returned(EmptyObj)

_extract_json_between_brackets(text) ==
  LET start == find(text, {"{"})
      end == rfind(text, {"}"}) + 1
  IN IF start /= -1 /\ end /= -1
     THEN json_loads(Slice(text, start, end))
     ELSE Returned(EmptyObj)

\* re.search(r'\{.*?\}', text, re.DOTALL): from the first '{' to the first
\* '}' after it.
_extract_json_with_regex(text) ==
  LET start == find(text, {"{"})
      closers == {j \in Positions(text, {"}"}) : j > start}
  IN IF start /= -1 /\ closers /= {}
     THEN json_loads(Slice(text, start, Min(closers) + 1))
     ELSE Returned(EmptyObj)

\* A variant of the fenced block strategy that parses the whole match,
\* group(0), the fences included.
CodeblockWholeMatch(text) ==
  LET start == find(text, {"F"})
      closers == {j \in Positions(text, {"E", "F"}) : j > start}
  IN IF start /= -1 /\ closers /= {}
     THEN json_loads(Slice(text, start, Min(closers) + 1))
     ELSE Returned(EmptyObj)

\* re.search(r'```json\n(.*?)```', text, re.DOTALL): the group is what lies
\* between the first ```json\n and the next three backticks, which are an
\* "E" token or the start of another "F" token.
_extract_json_with_codeblock(text) ==
  LET start == find(text, {"F"})
      closers == {j \in Positions(text, {"E", "F"}) : j > start}
  IN IF start /= -1 /\ closers /= {}
     THEN json_loads(Slice(text, start + 1, Min(closers)))
     ELSE Returned(EmptyObj)


\* The list `methods` of _extract_json and the call method(text).
methods == <<1, 2, 3>>

ApplyMethod(k, text) ==
  CASE k = 1 -> _extract_json_between_brackets(text)
    [] k = 2 -> _extract_json_with_regex(text)
    [] k = 3 -> _extract_json_with_codeblock(text)

\* Python's truth value of `json_dict` in `if json_dict:`.
Truthy(v) ==
  CASE v.kind = "obj" -> DOMAIN v.map /= {}
    [] v.kind = "arr" -> Len(v.elems) > 0
    [] v.kind = "num" -> v.n /= 0
    [] v.kind = "str" -> v.s /= ""
    [] v.kind = "bool" -> v.b
    [] OTHER -> FALSE

(***************************************************************************)
(* pydantic's validation of InvoiceItem and InvoiceDetails: every field is *)
(* required, a str field takes a string, a float field takes a number, a   *)
(* string that float() converts or a boolean (true is 1.0), other keys of  *)
(* the mapping are ignored.                                                *)
(***************************************************************************)
NumericStrings == {"150.0"}
StrToFloat(s) == CASE s = "150.0" -> 150

StrOk(v) == v.kind = "str"
FloatOk(v) ==
  \/ v.kind = "num"
  \/ v.kind = "bool"
  \/ (v.kind = "str" /\ v.s \in NumericStrings)
ToFloat(v) ==
  CASE v.kind = "num" -> v.n
    [] v.kind = "bool" -> IF v.b THEN 1 ELSE 0
    [] OTHER -> StrToFloat(v.s)

ItemFields == {"item_name", "quantity", "unit_price", "total_price"}
DetailsFields == {"invoice_number", "vendor_name", "invoice_date",
                  "total_amount", "tax_amount", "items"}

ItemValid(v) ==
  /\ v.kind = "obj"
  /\ ItemFields \subseteq DOMAIN v.map
  /\ StrOk(v.map.item_name)
  /\ FloatOk(v.map.quantity)
  /\ FloatOk(v.map.unit_price)
  /\ FloatOk(v.map.total_price)

InvoiceItem(m) ==
  [item_name |-> m.item_name.s, quantity |-> ToFloat(m.quantity),
   unit_price |-> ToFloat(m.unit_price), total_price |-> ToFloat(m.total_price)]

DetailsValid(m) ==
  /\ DetailsFields \subseteq DOMAIN m
  /\ StrOk(m.invoice_number)
  /\ StrOk(m.vendor_name)
  /\ StrOk(m.invoice_date)
  /\ FloatOk(m.total_amount)
  /\ FloatOk(m.tax_amount)
  /\ m.items.kind = "arr"
  /\ \A i \in 1..Len(m.items.elems) : ItemValid(m.items.elems[i])

\* A variant of InvoiceDetails that takes the items in reverse order.
InvoiceDetailsReversed(m) ==
  [invoice_number |-> m.invoice_number.s, vendor_name |-> m.vendor_name.s,
   invoice_date |-> m.invoice_date.s, total_amount |-> ToFloat(m.total_amount),
   tax_amount |-> ToFloat(m.tax_amount),
   items |-> [i \in 1..Len(m.items.elems) |->
                InvoiceItem(m.items.elems[Len(m.items.elems) + 1 - i].map)]]

InvoiceDetails(m) ==
  [invoice_number |-> m.invoice_number.s, vendor_name |-> m.vendor_name.s,
   invoice_date |-> m.invoice_date.s, total_amount |-> ToFloat(m.total_amount),
   tax_amount |-> ToFloat(m.tax_amount),
   items |-> [i \in 1..Len(m.items.elems) |-> InvoiceItem(m.items.elems[i].map)]]

_get_default_invoice_details ==
  [invoice_number |-> "N/A", vendor_name |-> "Unknown Vendor",
   invoice_date |-> "2023-01-01", total_amount |-> 0, tax_amount |-> 0,
   items |-> <<[item_name |-> "Sample Item", quantity |-> 0,
                unit_price |-> 0, total_price |-> 0]>>]

(***************************************************************************)
(* base64.b64encode(...).decode('utf-8'): the characters of the encoding.  *)
(***************************************************************************)
B64Alphabet ==
  <<"A", "B", "C", "D", "E", "F", "G", "H", "I", "J", "K", "L", "M", "N", "O", "P",
    "Q", "R", "S", "T", "U", "V", "W", "X", "Y", "Z", "a", "b", "c", "d", "e", "f",
    "g", "h", "i", "j", "k", "l", "m", "n", "o", "p", "q", "r", "s", "t", "u", "v",
    "w", "x", "y", "z", "0", "1", "2", "3", "4", "5", "6", "7", "8", "9", "+", "/">>
B64Char(i) == B64Alphabet[i + 1]

RECURSIVE b64encode(_)
b64encode(b) ==
  IF Len(b) = 0 THEN << >>
  ELSE IF Len(b) = 1 THEN
    <<B64Char(b[1] \div 4), B64Char((b[1] % 4) * 16), "=", "=">>
  ELSE IF Len(b) = 2 THEN
    <<B64Char(b[1] \div 4), B64Char((b[1] % 4) * 16 + b[2] \div 16),
      B64Char((b[2] % 16) * 4), "=">>
  ELSE
    <<B64Char(b[1] \div 4), B64Char((b[1] % 4) * 16 + b[2] \div 16),
      B64Char((b[2] % 16) * 4 + b[3] \div 64), B64Char(b[3] % 64)>>
    \o b64encode(SubSeq(b, 4, Len(b)))

(***************************************************************************)
(* The inputs.                                                             *)
(***************************************************************************)
RECURSIVE Flatten(_)
Flatten(ss) == IF ss = << >> THEN << >> ELSE Head(ss) \o Flatten(Tail(ss))

\* The uploaded files: the leading bytes of a JPEG (JFIF) image.
JpegBytes == <<255, 216, 255, 224, 0, 16, 74, 70, 73, 70, 0, 1>>
Files == {SubSeq(JpegBytes, 1, n) : n \in 0..MaxFileLen}

\* The texts given to _extract_json alone: up to MaxSegs of these fragments.
Fragments ==
  { <<"x">>, <<"{">>, <<"}">>, <<"F">>, <<"E">>, <<"{", "}">>,
    <<"{", "Ma", "}">>, <<"{", "Hk", "{", "Mb", "}", "}">>, <<"[", "1", "]">> }
Texts == UNION {{Flatten(ss) : ss \in [1..n -> Fragments]} : n \in 0..MaxSegs}

\* The responses of the remote model: an invoice object, or something else,
\* alone or inside prose, a fenced block or stray braces.
ItemToks == {"I1", "I2", "Imiss", "Istr"}
ItemLists == UNION {[1..n -> ItemToks] : n \in 0..MaxItems}
InvoiceHeads == {"Hfull", "Hmiss", "Hstr", "Hnumstr", "Hbool"}

RECURSIVE ItemsText(_)
ItemsText(its) ==
  IF its = << >> THEN << >>
  ELSE IF Len(its) = 1 THEN <<"{", its[1], "}">>
  ELSE <<"{", its[1], "}", ",">> \o ItemsText(Tail(its))

InvoiceText(h, its) == <<"{", h, "[">> \o ItemsText(its) \o <<"]", "}">>

Bodies ==
  {InvoiceText(h, its) : h \in InvoiceHeads, its \in ItemLists}
  \cup { InvoiceText("Hdflt", <<"Idflt">>), <<"{", "Mnoitems", "}">>,
         <<"{", "Ma", "}">>, <<"{", "}">>, <<"[", "1", "]">>, << >> }
Prefixes == { << >>, <<"x">>, <<"F">> }
Suffixes == { << >>, <<"x">>, <<"E">>, <<"}">> }
ResponseTexts == {p \o b \o s : p \in Prefixes, b \in Bodies, s \in Suffixes}

(***************************************************************************)
(* The state.                                                              *)
(***************************************************************************)
VARIABLES
  file,           \* the bytes of the uploaded file
  pos,            \* the read position of the uploaded file object
  pc,             \* where the current call stands
  base64_image,   \* analyze_invoice's local of that name
  sent,           \* the 'data' of the request given to generate_content
  text,           \* response.text, the argument of _extract_json
  method,         \* the index into `methods` of the loop of _extract_json
  attempts,       \* the strategies tried so far in this call, with how each ended
  json_response,  \* what _extract_json returned
  msgs,           \* the st.warning / st.error messages of this call, in order
  outcome         \* how the last call of analyze_invoice ended

vars == <<file, pos, pc, base64_image, sent, text, method, attempts,
          json_response, msgs, outcome>>

NotSent == <<"-">>
NoOutcome == [kind |-> "none", fallback |-> FALSE, remote |-> "none", rec |-> << >>]
RaisedOutcome == [kind |-> "raised", fallback |-> FALSE, remote |-> "none", rec |-> << >>]
ReturnedOutcome(r, fb, rem) ==
  [kind |-> "returned", fallback |-> fb, remote |-> rem, rec |-> r]

Init ==
  /\ file \in Files
  /\ pos = 0
  /\ pc = "idle"
  /\ base64_image = << >>
  /\ sent = NotSent
  /\ text = << >>
  /\ method = 1
  /\ attempts = << >>
  /\ json_response = NoValue
  /\ msgs = << >>
  /\ outcome = NoOutcome

(***************************************************************************)
(* main, line 161: st.image(uploaded_file).  Streamlit takes the whole     *)
(* buffer of the upload after rewinding it (seek(0), getvalue()).          *)
(***************************************************************************)
Preview ==
  /\ pc = "idle"
  /\ pos' = 0
  /\ UNCHANGED <<file, pc, base64_image, sent, text, method, attempts,
                 json_response, msgs, outcome>>

(***************************************************************************)
(* analyze_invoice, line 35: base64_image = self.encode_image(image_file), *)
(* outside the try block.  image_file.read() answers the bytes from the    *)
(* read position to the end and leaves the position at the end.            *)
(***************************************************************************)
read(f, p) == SubSeq(f, p + 1, Len(f))

encode_image(f, p) == b64encode(read(f, p))

EncodeImage ==
  /\ pc = "idle"
  /\ base64_image' = encode_image(file, pos)
  /\ pos' = Len(file)
  /\ pc' = "generate"
  /\ sent' = NotSent
  /\ text' = << >>
  /\ method' = 1
  /\ attempts' = << >>
  /\ json_response' = NoValue
  /\ msgs' = << >>
  /\ outcome' = NoOutcome
  /\ UNCHANGED file

\* image_file.read() raises (a closed or unreadable upload): line 35 is not
\* inside the try block, so the exception leaves analyze_invoice.
EncodeImageRaises ==
  /\ pc = "idle"
  /\ outcome' = RaisedOutcome
  /\ base64_image' = << >>
  /\ sent' = NotSent
  /\ text' = << >>
  /\ method' = 1
  /\ attempts' = << >>
  /\ json_response' = NoValue
  /\ msgs' = << >>
  /\ UNCHANGED <<file, pos, pc>>

(***************************************************************************)
(* Lines 62-69: self.model.generate_content([...]) and response.text.      *)
(***************************************************************************)
GenerateContent ==
  /\ pc = "generate"
  /\ sent' = base64_image
  /\ \E t \in ResponseTexts : text' = t
  /\ method' = 1
  /\ pc' = "extract"
  /\ UNCHANGED <<file, pos, base64_image, attempts, json_response, msgs, outcome>>

\* The remote call raises: lines 82-84.
GenerateContentRaises ==
  /\ pc = "generate"
  /\ sent' = base64_image
  /\ msgs' = Append(msgs, "Error analyzing invoice")
  /\ outcome' = ReturnedOutcome(_get_default_invoice_details, TRUE, "failed")
  /\ pc' = "idle"
  /\ UNCHANGED <<file, pos, base64_image, text, method, attempts, json_response>>

(***************************************************************************)
(* _extract_json, lines 94-100: one turn of the loop over `methods`.       *)
(***************************************************************************)
MethodOutcome(r) ==
  IF r.raised THEN "raised" ELSE IF Truthy(r.val) THEN "value" ELSE "empty"

\* A variant of the loop that returns whatever a method returns without
\* raising, the empty object included.
LoopStepAnyResult(k, r) ==
  IF ~r.raised
  THEN [pc |-> "extracted", method |-> k, json_response |-> r.val]
  ELSE [pc |-> "extract", method |-> k + 1, json_response |-> NoValue]

LoopStep(k, r) ==
  IF MethodOutcome(r) = "value"
  THEN [pc |-> "extracted", method |-> k, json_response |-> r.val]
  ELSE [pc |-> "extract", method |-> k + 1, json_response |-> NoValue]

TryMethod ==
  /\ pc = "extract"
  /\ method <= Len(methods)
  /\ LET r == ApplyMethod(methods[method], text)
         n == LoopStep(method, r)
     IN /\ attempts' = Append(attempts, [m |-> methods[method], out |-> MethodOutcome(r)])
        /\ pc' = n.pc
        /\ method' = n.method
        /\ json_response' = n.json_response
  /\ UNCHANGED <<file, pos, base64_image, sent, text, msgs, outcome>>

\* Lines 102-103: no method returned a value.
ExtractGiveUp ==
  /\ pc = "extract"
  /\ method > Len(methods)
  /\ msgs' = Append(msgs, "Could not extract JSON from response")
  /\ json_response' = EmptyObj
  /\ pc' = "extracted"
  /\ UNCHANGED <<file, pos, base64_image, sent, text, method, attempts, outcome>>

(***************************************************************************)
(* Lines 75-84: InvoiceDetails is built from json_response unpacked as     *)
(* keyword arguments, and the two handlers.  Unpacking a value that is no  *)
(* mapping raises TypeError, which the second handler takes.               *)
(***************************************************************************)
Construct(v) ==
  IF v.kind /= "obj" THEN [status |-> "TypeError", rec |-> << >>]
  ELSE IF DetailsValid(v.map) THEN [status |-> "ok", rec |-> InvoiceDetails(v.map)]
  ELSE [status |-> "ValidationError", rec |-> << >>]

\* A variant of the handlers that keeps the fields that did validate.
HandleSalvage(c) ==
  CASE c.status = "ok" ->
         [msg |-> << >>, rec |-> c.rec, fallback |-> FALSE]
    [] c.status = "ValidationError" ->
         [msg |-> <<"Validation Error">>,
          rec |-> [_get_default_invoice_details EXCEPT !.invoice_number = "INV-100"],
          fallback |-> TRUE]
    [] OTHER ->
         [msg |-> <<"Error analyzing invoice">>, rec |-> _get_default_invoice_details,
          fallback |-> TRUE]

Handle(c) ==
  CASE c.status = "ok" ->
         [msg |-> << >>, rec |-> c.rec, fallback |-> FALSE]
    [] c.status = "ValidationError" ->
         [msg |-> <<"Validation Error">>, rec |-> _get_default_invoice_details,
          fallback |-> TRUE]
    [] OTHER ->
         [msg |-> <<"Error analyzing invoice">>, rec |-> _get_default_invoice_details,
          fallback |-> TRUE]

Validate ==
  /\ pc = "extracted"
  /\ LET h == Handle(Construct(json_response))
     IN /\ msgs' = msgs \o h.msg
        /\ outcome' = ReturnedOutcome(h.rec, h.fallback, "responded")
  /\ pc' = "idle"
  /\ UNCHANGED <<file, pos, base64_image, sent, text, method, attempts, json_response>>

Next ==
  \/ Preview
  \/ EncodeImage
  \/ EncodeImageRaises
  \/ GenerateContent
  \/ GenerateContentRaises
  \/ TryMethod
  \/ ExtractGiveUp
  \/ Validate

Spec == Init /\ [][Next]_vars

(***************************************************************************)
(* _extract_json called on its own, on every text of Texts.                *)
(***************************************************************************)
ExtractInit ==
  /\ file = << >>
  /\ pos = 0
  /\ pc = "extract"
  /\ base64_image = << >>
  /\ sent = NotSent
  /\ text \in Texts
  /\ method = 1
  /\ attempts = << >>
  /\ json_response = NoValue
  /\ msgs = << >>
  /\ outcome = NoOutcome

ExtractNext ==
  \/ TryMethod
  \/ ExtractGiveUp

ExtractSpec == ExtractInit /\ [][ExtractNext]_vars

(***************************************************************************)
(* What the properties below speak of.                                     *)
(***************************************************************************)
\* The strategy whose value _extract_json returned, 0 when none did.
Winner ==
  IF attempts /= << >> /\ attempts[Len(attempts)].out = "value"
  THEN attempts[Len(attempts)].m ELSE 0

Pairs(t) == (1..Len(t)) \X (1..Len(t))

\* The spans of t (first and last token, 1-based) that are a well-formed
\* JSON object, and those of them that lie in no other.
ObjectSpans(t) ==
  {sp \in Pairs(t) : /\ sp[1] < sp[2]
                     /\ t[sp[1]] = "{"
                     /\ t[sp[2]] = "}"
                     /\ ~json_loads(SubSeq(t, sp[1], sp[2])).raised}
Outermost(t) ==
  {sp \in ObjectSpans(t) :
     ~\E o \in ObjectSpans(t) : o /= sp /\ o[1] <= sp[1] /\ sp[2] <= o[2]}
SingleObject(t) == Cardinality(Outermost(t)) = 1
TheSpan(t) == CHOOSE sp \in Outermost(t) : TRUE
TheObject(t) == json_loads(SubSeq(t, TheSpan(t)[1], TheSpan(t)[2])).val

\* The fenced blocks of t, ```json\n ... ```, that hold well-formed JSON.
FencedBlocks(t) ==
  {sp \in Pairs(t) : /\ sp[1] < sp[2]
                     /\ t[sp[1]] = "F"
                     /\ t[sp[2]] = "E"
                     /\ ~json_loads(SubSeq(t, sp[1] + 1, sp[2] - 1)).raised}
BlockContent(t, sp) == json_loads(SubSeq(t, sp[1] + 1, sp[2] - 1)).val
\* Such a block that opens at the first ```json\n of t.
FirstBlocks(t) == {sp \in FencedBlocks(t) : \A i \in 1..(sp[1] - 1) : t[i] /= "F"}

NoBraceSpan(t) == ~\E sp \in Pairs(t) : sp[1] < sp[2] /\ t[sp[1]] = "{" /\ t[sp[2]] = "}"

(***************************************************************************)
(* C1. No exception escapes analyze_invoice: whatever the file and the     *)
(* remote model do, a call never ends by raising to its caller.  The code  *)
(* breaks this: encode_image runs before the try block.                    *)
(***************************************************************************)
C1_NoExceptionEscapes == outcome.kind /= "raised"

(***************************************************************************)
(* C2.  As first stated: when the remote call fails, or the extractor      *)
(* yields no non-empty mapping, or the mapping lacks a required field or   *)
(* holds in a numeric field a value that is not a JSON number, the record  *)
(* returned is the fixed default in every field.                           *)
(***************************************************************************)
C2_Default ==
  [invoice_number |-> "N/A", vendor_name |-> "Unknown Vendor",
   invoice_date |-> "2023-01-01", total_amount |-> 0, tax_amount |-> 0,
   items |-> <<[item_name |-> "Sample Item", quantity |-> 0,
                unit_price |-> 0, total_price |-> 0]>>]

NoMapping(v) == v.kind /= "obj" \/ DOMAIN v.map = {}

ItemObjects(m) ==
  IF "items" \in DOMAIN m /\ m.items.kind = "arr"
  THEN {m.items.elems[i] : i \in {j \in 1..Len(m.items.elems) : m.items.elems[j].kind = "obj"}}
  ELSE {}

MissingRequired(m) ==
  \/ \E f \in DetailsFields : f \notin DOMAIN m
  \/ \E it \in ItemObjects(m) : \E f \in ItemFields : f \notin DOMAIN it.map

NumericValues(m) ==
  {m[f] : f \in {"total_amount", "tax_amount"} \cap DOMAIN m}
  \cup UNION {{it.map[f] : f \in {"quantity", "unit_price", "total_price"} \cap DOMAIN it.map}
              : it \in ItemObjects(m)}

Convertible(v) ==
  \/ v.kind \in {"num", "bool"}
  \/ (v.kind = "str" /\ v.s \in NumericStrings)

C2_DefaultOnNonNumber ==
  (/\ outcome.kind = "returned"
   /\ \/ outcome.remote = "failed"
      \/ NoMapping(json_response)
      \/ MissingRequired(json_response.map)
      \/ \E v \in NumericValues(json_response.map) : v.kind /= "num")
  => outcome.rec = C2_Default

(***************************************************************************)
(* C2, amended: the same, where the value of the numeric field is one that *)
(* cannot be converted to a float (a string that is no numeral); a numeric *)
(* string or a boolean is converted and accepted.  In each of these cases  *)
(* the record returned is the fixed default in every field and the call    *)
(* fell back.                                                              *)
(***************************************************************************)
C2_DefaultOnFailure ==
  (/\ outcome.kind = "returned"
   /\ \/ outcome.remote = "failed"
      \/ NoMapping(json_response)
      \/ MissingRequired(json_response.map)
      \/ \E v \in NumericValues(json_response.map) : ~Convertible(v))
  => outcome.rec = C2_Default /\ outcome.fallback

C2_Witness ==
  /\ outcome.kind = "returned"
  /\ outcome.remote = "responded"
  /\ ~NoMapping(json_response)
  /\ ~MissingRequired(json_response.map)
  /\ json_response.map.total_amount = Str("abc")
  /\ json_response.map.invoice_number = Str("INV-100")
  /\ Len(json_response.map.items.elems) = 2
  /\ outcome.rec = C2_Default

(***************************************************************************)
(* C3. When the response text is exactly one well-formed JSON object with  *)
(* the six required fields, each correctly typed (every item with its four *)
(* fields), the call returns, without falling back and without a message,  *)
(* a record whose every field is the object's value, the items in the      *)
(* order of the response.                                                  *)
(***************************************************************************)
C3_ItemTyped(v) ==
  /\ v.kind = "obj"
  /\ ItemFields \subseteq DOMAIN v.map
  /\ v.map.item_name.kind = "str"
  /\ \A f \in {"quantity", "unit_price", "total_price"} : v.map[f].kind = "num"

C3_WellTyped(v) ==
  /\ v.kind = "obj"
  /\ DetailsFields \subseteq DOMAIN v.map
  /\ \A f \in {"invoice_number", "vendor_name", "invoice_date"} : v.map[f].kind = "str"
  /\ \A f \in {"total_amount", "tax_amount"} : v.map[f].kind = "num"
  /\ v.map.items.kind = "arr"
  /\ \A i \in 1..Len(v.map.items.elems) : C3_ItemTyped(v.map.items.elems[i])

C3_SameItem(r, m) ==
  /\ r.item_name = m.item_name.s
  /\ r.quantity = m.quantity.n
  /\ r.unit_price = m.unit_price.n
  /\ r.total_price = m.total_price.n

C3_ExactRecord ==
  (/\ outcome.kind = "returned"
   /\ outcome.remote = "responded"
   /\ ~json_loads(text).raised
   /\ C3_WellTyped(json_loads(text).val))
  => LET m == json_loads(text).val.map
         r == outcome.rec
     IN /\ ~outcome.fallback
        /\ msgs = << >>
        /\ r.invoice_number = m.invoice_number.s
        /\ r.vendor_name = m.vendor_name.s
        /\ r.invoice_date = m.invoice_date.s
        /\ r.total_amount = m.total_amount.n
        /\ r.tax_amount = m.tax_amount.n
        /\ Len(r.items) = Len(m.items.elems)
        /\ \A i \in 1..Len(r.items) : C3_SameItem(r.items[i], m.items.elems[i].map)

C3_Witness ==
  /\ outcome.kind = "returned"
  /\ text = InvoiceText("Hfull", <<"I1", "I2">>)
  /\ outcome.rec.invoice_number = "INV-100"
  /\ outcome.rec.total_amount = 150
  /\ outcome.rec.items[1].item_name = "Widget"
  /\ outcome.rec.items[2].item_name = "Bolt"

(***************************************************************************)
(* C4. Whatever the text, what _extract_json returns is a key-value        *)
(* mapping.  The code breaks this: the fenced block strategy returns       *)
(* whatever JSON value the block holds.                                    *)
(***************************************************************************)
C4_ResultIsMapping == pc = "extracted" => json_response.kind = "obj"

(***************************************************************************)
(* C5.  As first stated: for a text that holds a single well-formed JSON   *)
(* object within surrounding prose, _extract_json returns that object, and *)
(* it is strategy 1 that yields it.                                        *)
(***************************************************************************)
C5_SingleObjectByStrategy1 ==
  (pc = "extracted" /\ SingleObject(text))
  => json_response = TheObject(text) /\ Winner = 1

(***************************************************************************)
(* C5, amended: the same, for a non-empty object, when the text before the *)
(* object holds no '{' and the text after it holds no '}'.                 *)
(***************************************************************************)
C5_Scope(t) ==
  /\ SingleObject(t)
  /\ TheObject(t) /= EmptyObj
  /\ \A i \in 1..(TheSpan(t)[1] - 1) : t[i] /= "{"
  /\ \A i \in (TheSpan(t)[2] + 1)..Len(t) : t[i] /= "}"

C5_SingleObjectNoStrayBrace ==
  (pc = "extracted" /\ C5_Scope(text))
  => json_response = TheObject(text) /\ Winner = 1

C5_Witness ==
  /\ pc = "extracted"
  /\ C5_Scope(text)
  /\ text[1] = "x"
  /\ text[Len(text)] = "x"
  /\ TheObject(text) = Obj([k |-> Obj([b |-> Num(1)])])
  /\ json_response = TheObject(text)

(***************************************************************************)
(* C6.  As first stated: for a text on which strategy 1 fails to parse and *)
(* which holds a well-formed fenced json block, _extract_json returns the  *)
(* content of that block, and it is strategy 3 that yields it.             *)
(***************************************************************************)
C6_FencedBlockByStrategy3 ==
  (/\ pc = "extracted"
   /\ _extract_json_between_brackets(text).raised
   /\ FencedBlocks(text) /= {})
  => /\ Winner = 3
     /\ \E sp \in FencedBlocks(text) : json_response = BlockContent(text, sp)

(***************************************************************************)
(* C6, amended: the same, when strategy 2 too raises or yields an empty    *)
(* result, and the well-formed block is the one that opens at the first    *)
(* ```json\n of the text and its content is not empty.                     *)
(***************************************************************************)
C6_Scope(t) ==
  /\ _extract_json_between_brackets(t).raised
  /\ MethodOutcome(_extract_json_with_regex(t)) /= "value"
  /\ \E sp \in FirstBlocks(t) : Truthy(BlockContent(t, sp))

C6_FencedBlockWhenOthersFail ==
  (pc = "extracted" /\ C6_Scope(text))
  => /\ Winner = 3
     /\ \E sp \in FirstBlocks(text) : json_response = BlockContent(text, sp)

C6_Witness ==
  /\ pc = "extracted"
  /\ C6_Scope(text)
  /\ Cardinality(Positions(text, {"{"})) = 3
  /\ json_response = Obj([k |-> Obj([b |-> Num(1)])])

(***************************************************************************)
(* C7. For a text with no brace-delimited content (no '{' with a '}' after *)
(* it), _extract_json returns the empty mapping.  The code breaks this     *)
(* through the fenced block strategy.                                      *)
(***************************************************************************)
C7_NoBracesGiveEmpty ==
  (pc = "extracted" /\ NoBraceSpan(text)) => json_response = EmptyObj

(***************************************************************************)
(* C8. The strategies are tried in the order bracket span, regex, fenced   *)
(* block; a strategy is tried only after every one before it raised or     *)
(* gave an empty result; none is tried after one gave a non-empty result,  *)
(* which is what _extract_json returns; a parse that gives the empty       *)
(* object counts as a failure and the next strategy is tried.              *)
(***************************************************************************)
C8_OrderedFirstSuccess ==
  /\ Len(attempts) <= 3
  /\ \A i \in 1..Len(attempts) :
       /\ attempts[i].m = i
       /\ attempts[i].out = MethodOutcome(ApplyMethod(i, text))
       /\ i < Len(attempts) => attempts[i].out \in {"raised", "empty"}
  /\ pc = "extracted" =>
       /\ \A i \in 1..3 :
            (i <= Len(attempts) /\ ApplyMethod(i, text) = Returned(EmptyObj))
            => (i = 3 \/ Len(attempts) > i)
       /\ \/ /\ Winner /= 0
             /\ json_response = ApplyMethod(Winner, text).val
             /\ json_response /= EmptyObj
          \/ /\ Winner = 0
             /\ Len(attempts) = 3
             /\ json_response = EmptyObj

C8_Witness ==
  /\ pc = "extracted"
  /\ Len(attempts) = 3
  /\ attempts[1].out = "raised"
  /\ find(text, {"{"}) /= -1
  /\ ApplyMethod(2, text) = Returned(EmptyObj)
  /\ attempts[3].out = "value"
  /\ json_response = Obj([a |-> Num(1)])

(***************************************************************************)
(* C9. Each call of analyze_invoice sends the remote model the base64      *)
(* encoding of the complete bytes of the file, whatever was read or        *)
(* analysed before.  The code breaks this: encode_image reads from the     *)
(* current position of the file object.                                    *)
(***************************************************************************)
C9_CompletePayload == sent /= NotSent => sent = b64encode(file)

(***************************************************************************)
(* C10. In a call that falls back, a message naming the cause is there     *)
(* when the default is returned: the analysis error for a failed remote    *)
(* call, the extraction warning when no strategy yields a non-empty        *)
(* mapping, the validation error when a mapping fails validation.  The     *)
(* code breaks this when the extractor returns a value that is no mapping. *)
(***************************************************************************)
C10_MessageNamesCause ==
  (outcome.kind = "returned" /\ outcome.fallback)
  => /\ Len(msgs) >= 1
     /\ outcome.remote = "failed" => msgs = <<"Error analyzing invoice">>
     /\ (outcome.remote = "responded" /\ NoMapping(json_response))
        => msgs[1] = "Could not extract JSON from response"
     /\ (outcome.remote = "responded" /\ ~NoMapping(json_response))
        => msgs = <<"Validation Error">>

=============================================================================
